---------------------------- MODULE Spec2Model ----------------------------
(***************************************************************************)
(* A model of the card value types of CardDefs.h: StrainT (Suit, Strain),  *)
(* RankT (Rank, AnyRank), Priority, Direction, Position, RankSet and the   *)
(* sentinel-encoded SpecializeOptional wrapper.                            *)
(*                                                                         *)
(* The state is one object (obj), the record of the last completed call on *)
(* it (call) and, for the specifications that need it, the caller's own    *)
(* bookkeeping (hist).  A failed assert() aborts the process: it is        *)
(* recorded as call.fault and no operation is enabled afterwards.          *)
(***************************************************************************)
EXTENDS Integers, Sequences, FiniteSets, TLC

VARIABLES obj, call, hist

vars == <<obj, call, hist>>

(***************************************************************************)
(* Machine integers and the bit operations of C++ on them.                 *)
(***************************************************************************)
UCharMax == 255
UShortMax == 65535

UChar == 0..UCharMax
UShort == 0..UShortMax

\* a & b, a | b, a ^ b on unsigned values.  With a single-bit b the result
\* is read off that bit of a; otherwise it is built bit by bit from the
\* lowest (the remaining bits of a value that has run out are all zero).
SingleBits ==
  {1, 2, 4, 8, 16, 32, 64, 128, 256, 512, 1024, 2048, 4096, 8192, 16384, 32768}

BitSet(a, b) == (a \div b) % 2 = 1

RECURSIVE BitAndAll(_, _)
BitAndAll(a, b) ==
  IF a = 0 \/ b = 0 THEN 0
  ELSE (IF a % 2 = 1 /\ b % 2 = 1 THEN 1 ELSE 0) + 2 * BitAndAll(a \div 2, b \div 2)

RECURSIVE BitOrAll(_, _)
BitOrAll(a, b) ==
  IF a = 0 THEN b
  ELSE IF b = 0 THEN a
  ELSE (IF a % 2 = 1 \/ b % 2 = 1 THEN 1 ELSE 0) + 2 * BitOrAll(a \div 2, b \div 2)

RECURSIVE BitXorAll(_, _)
BitXorAll(a, b) ==
  IF a = 0 THEN b
  ELSE IF b = 0 THEN a
  ELSE (IF (a % 2) # (b % 2) THEN 1 ELSE 0) + 2 * BitXorAll(a \div 2, b \div 2)

BitAnd(a, b) ==
  IF b \in SingleBits THEN (IF BitSet(a, b) THEN b ELSE 0) ELSE BitAndAll(a, b)

BitOr(a, b) ==
  IF b \in SingleBits THEN (IF BitSet(a, b) THEN a ELSE a + b) ELSE BitOrAll(a, b)

BitXor(a, b) ==
  IF b \in SingleBits THEN (IF BitSet(a, b) THEN a - b ELSE a + b) ELSE BitXorAll(a, b)

\* ~x, and the two's complement -x, cut to an unsigned short
BitNot(a) == UShortMax - a
Negate(a) == (UShortMax + 1 - a) % (UShortMax + 1)

(***************************************************************************)
(* The state before any object is constructed, and call records.           *)
(***************************************************************************)
NoObject == [type |-> "none", value |-> 0]
NoCall == [op |-> "none", fault |-> FALSE]
NoHist == [added |-> {}, removed |-> {}]

Running == ~call.fault

(***************************************************************************)
(* StrainT<noTrumpOk>: Suit (noTrumpOk = FALSE) and Strain (TRUE).         *)
(***************************************************************************)
StrainTypes == {"Suit", "Strain"}
noTrumpOk(type) == type = "Strain"

StrainT_optionalValue == 189

StrainT_minValue == 0
StrainT_maxValue(nt) == IF nt THEN 4 ELSE 3

StrainT_testOptional(value) == value = StrainT_optionalValue

\* the condition of checkValid's assert
StrainT_checkValid(nt, value, optionalOk) ==
  \/ (IF value # StrainT_optionalValue THEN TRUE ELSE optionalOk)
  \/ /\ value <= StrainT_maxValue(nt)
     /\ (IF value # 4 THEN TRUE ELSE nt)

StrainT_gt(value, rhs) == IF rhs = 4 THEN FALSE ELSE value < rhs
StrainT_ge(value, rhs) == IF rhs = 4 THEN value = 4 ELSE value <= rhs
\* the legacy integers compared as they stand
StrainT_lt_Numeric(value, rhs) == IF value = 4 THEN FALSE ELSE value < rhs
StrainT_lt(value, rhs) == IF value = 4 THEN FALSE ELSE value > rhs
StrainT_le(value, rhs) == IF value = 4 THEN rhs = 4 ELSE value >= rhs
StrainT_eq(value, rhs) == value = rhs
StrainT_ne(value, rhs) == value = rhs

IsStrain == obj.type \in StrainTypes

\* explicit StrainT(unsigned char value)
StrainT_ctor(type, v) ==
  /\ obj = NoObject
  /\ obj' = [type |-> type, value |-> v]
  /\ call' = [op |-> "ctor", arg |-> v,
              fault |-> ~StrainT_checkValid(noTrumpOk(type), v, FALSE)]
  /\ UNCHANGED hist

\* StrainT(limitType limit): no check
StrainT_limitCtor(type, limit) ==
  /\ obj = NoObject
  /\ obj' = [type |-> type, value |-> limit]
  /\ call' = [op |-> "limitCtor", arg |-> limit, fault |-> FALSE]
  /\ UNCHANGED hist

\* legacy operator++ (int) and operator-- (int): no check
StrainT_inc ==
  /\ IsStrain /\ Running
  /\ obj' = [obj EXCEPT !.value = (obj.value + 1) % (UCharMax + 1)]
  /\ call' = [op |-> "inc", fault |-> FALSE]
  /\ UNCHANGED hist

StrainT_dec ==
  /\ IsStrain /\ Running
  /\ obj' = [obj EXCEPT !.value = (obj.value + UCharMax) % (UCharMax + 1)]
  /\ call' = [op |-> "dec", fault |-> FALSE]
  /\ UNCHANGED hist

\* operator unsigned char()
StrainT_toUChar ==
  /\ IsStrain /\ Running
  /\ call' = [op |-> "toUChar", ret |-> obj.value,
              fault |-> ~StrainT_checkValid(noTrumpOk(obj.type), obj.value, FALSE)]
  /\ UNCHANGED <<obj, hist>>

\* operator<= (limitType limit): no check
StrainT_leLimit(limit) ==
  /\ IsStrain /\ Running
  /\ call' = [op |-> "leLimit", arg |-> limit, ret |-> obj.value <= limit,
              fault |-> FALSE]
  /\ UNCHANGED <<obj, hist>>

\* the comparison operators against another value of the same type
StrainT_compare(op, rhs) ==
  /\ IsStrain /\ Running
  /\ call' = [op |-> op, arg |-> rhs, fault |-> FALSE,
              ret |-> CASE op = "gt" -> StrainT_gt(obj.value, rhs)
                        [] op = "ge" -> StrainT_ge(obj.value, rhs)
                        [] op = "lt" -> StrainT_lt(obj.value, rhs)
                        [] op = "le" -> StrainT_le(obj.value, rhs)
                        [] op = "eq" -> StrainT_eq(obj.value, rhs)
                        [] op = "ne" -> StrainT_ne(obj.value, rhs)]
  /\ UNCHANGED <<obj, hist>>

\* Strain::highToLow(), Strain::lowToHigh(), Suit::highToLow(),
\* Suit::lowToHigh(): the static vectors, as written
highToLow(type) ==
  IF type = "Strain" THEN <<4, 0, 1, 2, 3>> ELSE <<0, 1, 2, 3>>

lowToHigh(type) ==
  IF type = "Strain" THEN <<0, 3, 2, 1, 0>> ELSE <<3, 2, 1, 0>>

Orders == {"highToLow", "lowToHigh"}

StrainT_enumerate(order) ==
  /\ IsStrain /\ Running
  /\ call' = [op |-> order, arg |-> 0, fault |-> FALSE,
              ret |-> IF order = "highToLow" THEN highToLow(obj.type)
                      ELSE lowToHigh(obj.type)]
  /\ UNCHANGED <<obj, hist>>

CompareOps == {"gt", "ge", "lt", "le", "eq", "ne"}

\* the values of the type's domain, min() .. max()
StrainDomain(type) == StrainT_minValue..StrainT_maxValue(noTrumpOk(type))

InitStrain == obj = NoObject /\ call = NoCall /\ hist = NoHist

NextStrain ==
  \/ /\ obj = NoObject
     /\ \/ \E type \in StrainTypes, v \in UChar : StrainT_ctor(type, v)
        \/ \E type \in StrainTypes :
             \E limit \in {StrainT_minValue, StrainT_maxValue(noTrumpOk(type))} :
               StrainT_limitCtor(type, limit)
  \/ /\ IsStrain /\ Running
     /\ \/ StrainT_inc
        \/ StrainT_dec
        \/ StrainT_toUChar
        \/ \E limit \in {StrainT_minValue, StrainT_maxValue(noTrumpOk(obj.type))} :
             StrainT_leLimit(limit)
        \/ \E op \in CompareOps, rhs \in StrainDomain(obj.type) :
             StrainT_compare(op, rhs)
        \/ \E order \in Orders : StrainT_enumerate(order)

SpecStrain == InitStrain /\ [][NextStrain]_vars


(***************************************************************************)
(* C1: validated construction of a Suit or Strain from a raw integer       *)
(* faults for every out-of-range value (Suit(v) for v > 3, Strain(v) for   *)
(* v > 4) and stores in-range values unchanged without fault.              *)
(***************************************************************************)
C1_StrainCtorFaultsOutOfRange ==
  (obj.type \in StrainTypes /\ call.op = "ctor") =>
    /\ call.fault <=> call.arg > StrainT_maxValue(noTrumpOk(obj.type))
    /\ ~call.fault => obj.value = call.arg

(***************************************************************************)
(* C2: NoTrump is the maximum of the Strain comparison order: for every    *)
(* suit strain s, NoTrump > s, NoTrump >= s, s < NoTrump and s <= NoTrump  *)
(* are true, and s > NoTrump and NoTrump < s are false.                    *)
(***************************************************************************)
NoTrump == 4
SuitStrains == 0..3

C2_NoTrumpIsMaximum ==
  (obj.type = "Strain" /\ call.op \in {"gt", "ge", "lt", "le"}) =>
    /\ (obj.value = NoTrump /\ call.arg \in SuitStrains /\ call.op \in {"gt", "ge"})
         => call.ret
    /\ (obj.value \in SuitStrains /\ call.arg = NoTrump /\ call.op \in {"lt", "le"})
         => call.ret
    /\ (obj.value \in SuitStrains /\ call.arg = NoTrump /\ call.op = "gt")
         => ~call.ret
    /\ (obj.value = NoTrump /\ call.arg \in SuitStrains /\ call.op = "lt")
         => ~call.ret

(***************************************************************************)
(* RankT<zeroOk, oneOk, fifteenOk>: Rank (no 0, no 1, no 15) and AnyRank   *)
(* (0 allowed).                                                            *)
(***************************************************************************)
RankTypes == {"Rank", "AnyRank"}
zeroOk(type) == type = "AnyRank"
oneOk(type) == FALSE
fifteenOk(type) == FALSE

RankT_optionalValue == 189

RankT_minValue(type) == IF zeroOk(type) THEN 0 ELSE (IF oneOk(type) THEN 1 ELSE 2)
RankT_maxValue(type) == IF fifteenOk(type) THEN 15 ELSE 14

RankT_testOptional(value) == value = RankT_optionalValue

\* a checkValid that forgets the oneOk test
RankT_checkValid_NoOneTest(type, value) ==
  /\ value <= RankT_maxValue(type)
  /\ (IF value # 0 THEN TRUE ELSE zeroOk(type))
  /\ (IF value # 15 THEN TRUE ELSE fifteenOk(type))

\* the condition of checkValid's assert
RankT_checkValid(type, value) ==
  /\ value <= RankT_maxValue(type)
  /\ (IF value # 0 THEN TRUE ELSE zeroOk(type))
  /\ (IF value # 1 THEN TRUE ELSE oneOk(type))
  /\ (IF value # 15 THEN TRUE ELSE fifteenOk(type))

bitMaskRankData ==
  <<44544, 44545,
    1, 2, 4, 8, 16, 32,
    64, 128, 256, 512, 1024, 2048, 4096,
    44559>>

\* a bitMask() that reads the table one entry too far
Rank_bitMask_NextEntry(value) == bitMaskRankData[value + 2]

\* Rank::bitMask() of a rank that passed checkValid
Rank_bitMask(value) == bitMaskRankData[value + 1]

IsRank == obj.type \in RankTypes

\* explicit RankT(unsigned char value)
RankT_ctor(type, v) ==
  /\ obj = NoObject
  /\ obj' = [type |-> type, value |-> v]
  /\ call' = [op |-> "ctor", arg |-> v, fault |-> ~RankT_checkValid(type, v)]
  /\ UNCHANGED hist

\* RankT(limitType limit): no check
RankT_limitCtor(type, limit) ==
  /\ obj = NoObject
  /\ obj' = [type |-> type, value |-> limit]
  /\ call' = [op |-> "limitCtor", arg |-> limit, fault |-> FALSE]
  /\ UNCHANGED hist

\* legacy operator++ (int) and operator-- (int): no check
RankT_inc ==
  /\ IsRank /\ Running
  /\ obj' = [obj EXCEPT !.value = (obj.value + 1) % (UCharMax + 1)]
  /\ call' = [op |-> "inc", fault |-> FALSE]
  /\ UNCHANGED hist

RankT_dec ==
  /\ IsRank /\ Running
  /\ obj' = [obj EXCEPT !.value = (obj.value + UCharMax) % (UCharMax + 1)]
  /\ call' = [op |-> "dec", fault |-> FALSE]
  /\ UNCHANGED hist

\* operator<= (limitType) and operator>= (limitType): no check
RankT_leLimit(limit) ==
  /\ IsRank /\ Running
  /\ call' = [op |-> "leLimit", arg |-> limit, ret |-> obj.value <= limit,
              fault |-> FALSE]
  /\ UNCHANGED <<obj, hist>>

RankT_geLimit(limit) ==
  /\ IsRank /\ Running
  /\ call' = [op |-> "geLimit", arg |-> limit, ret |-> obj.value >= limit,
              fault |-> FALSE]
  /\ UNCHANGED <<obj, hist>>

\* toNumber(), and Rank's operator unsigned char()
RankT_toNumber ==
  /\ IsRank /\ Running
  /\ call' = [op |-> "toNumber", ret |-> obj.value,
              fault |-> ~RankT_checkValid(obj.type, obj.value)]
  /\ UNCHANGED <<obj, hist>>

\* Rank::bitMask()
Rank_bitMaskCall ==
  /\ obj.type = "Rank" /\ Running
  /\ call' = IF RankT_checkValid(obj.type, obj.value)
               THEN [op |-> "bitMask", ret |-> Rank_bitMask(obj.value), fault |-> FALSE]
               ELSE [op |-> "bitMask", ret |-> 0, fault |-> TRUE]
  /\ UNCHANGED <<obj, hist>>

\* AnyRank::toLessThan14()
AnyRank_toLessThan14 ==
  /\ obj.type = "AnyRank" /\ Running
  /\ call' = [op |-> "toLessThan14", ret |-> obj.value, fault |-> ~(obj.value < 14)]
  /\ UNCHANGED <<obj, hist>>

InitRank == obj = NoObject /\ call = NoCall /\ hist = NoHist

NextRank ==
  \/ /\ obj = NoObject
     /\ \/ \E type \in RankTypes, v \in UChar : RankT_ctor(type, v)
        \/ \E type \in RankTypes :
             \E limit \in {RankT_minValue(type), RankT_maxValue(type)} :
               RankT_limitCtor(type, limit)
  \/ /\ IsRank /\ Running
     /\ \/ RankT_inc
        \/ RankT_dec
        \/ \E limit \in {RankT_minValue(obj.type), RankT_maxValue(obj.type)} :
             RankT_leLimit(limit)
        \/ \E limit \in {RankT_minValue(obj.type), RankT_maxValue(obj.type)} :
             RankT_geLimit(limit)
        \/ RankT_toNumber
        \/ Rank_bitMaskCall
        \/ AnyRank_toLessThan14

SpecRank == InitRank /\ [][NextRank]_vars

Suit_numCards == 13

RankSet_optionalValue == 49107

RankSet_minValue == 0
RankSet_maxValue == 2^Suit_numCards - 1

RankSet_testOptional(value) == value = RankSet_optionalValue

\* the condition of checkValid's assert
RankSet_checkValid(value) == value <= RankSet_maxValue

\* the Ranks a caller can construct: Rank::min() .. Rank::max()
Ranks == {v \in UChar : RankT_checkValid("Rank", v)}
RankSets == {v \in UShort : RankSet_checkValid(v)}

Ok(v) == [value |-> v, fault |-> FALSE]
Faulted(v) == [value |-> v, fault |-> TRUE]

\* explicit RankSet(unsigned short value)
RankSet_fromNumber(v) == IF RankSet_checkValid(v) THEN Ok(v) ELSE Faulted(v)

\* explicit RankSet(Rank const & rank)
RankSet_fromRank(r) == RankSet_fromNumber(Rank_bitMask(r))

\* test(rank): value & rank.bitMask(), as a bool
RankSet_test(value, r) == BitAnd(value, Rank_bitMask(r)) # 0

\* a reset(rank) that masks with the bit instead of its complement
RankSet_resetRank_NoComplement(value, r) ==
  IF ~RankSet_checkValid(value) THEN Faulted(value)
  ELSE Ok(BitAnd(value, Rank_bitMask(r)))

\* reset(rank), set(rank), flip(rank)
RankSet_resetRank(value, r) ==
  IF ~RankSet_checkValid(value) THEN Faulted(value)
  ELSE Ok(BitAnd(value, BitNot(Rank_bitMask(r))))

RankSet_setRank(value, r) ==
  IF ~RankSet_checkValid(value) THEN Faulted(value)
  ELSE Ok(BitOr(value, Rank_bitMask(r)))

\* value ^= the rank's number instead of its mask
RankSet_flipRank_ByNumber(value, r) ==
  IF ~RankSet_checkValid(value) THEN Faulted(value)
  ELSE Ok(BitXor(value, r))

RankSet_flipRank(value, r) ==
  IF ~RankSet_checkValid(value) THEN Faulted(value)
  ELSE Ok(BitXor(value, Rank_bitMask(r)))

\* a flip() that does not mask the complement to 13 bits
RankSet_flipAll_NoMask(value) ==
  IF ~RankSet_checkValid(value) THEN Faulted(value)
  ELSE Ok(BitNot(value))

\* reset(), set(), flip()
RankSet_resetAll(value) ==
  IF ~RankSet_checkValid(value) THEN Faulted(value) ELSE Ok(0)

RankSet_setAll(value) ==
  IF ~RankSet_checkValid(value) THEN Faulted(value) ELSE Ok(RankSet_maxValue)

RankSet_flipAll(value) ==
  IF ~RankSet_checkValid(value) THEN Faulted(value)
  ELSE Ok(BitAnd(BitNot(value), RankSet_maxValue))

\* operator~ : a new RankSet
RankSet_complement(value) ==
  IF ~RankSet_checkValid(value) THEN Faulted(value)
  ELSE RankSet_fromNumber(BitAnd(BitNot(value), RankSet_maxValue))

\* toLowest() and cloneOnlyLSB(): a new RankSet of value & (-value)
RankSet_toLowest(value) ==
  IF ~RankSet_checkValid(value) THEN Faulted(value)
  ELSE RankSet_fromNumber(BitAnd(value, Negate(value)))

\* value & (value - 1): the set without its lowest member
RankSet_cloneOnlyLSB_ClearLSB(value) ==
  IF ~RankSet_checkValid(value) THEN Faulted(value)
  ELSE RankSet_fromNumber(BitAnd(value, (value + UShortMax) % (UShortMax + 1)))

RankSet_cloneOnlyLSB(value) ==
  IF ~RankSet_checkValid(value) THEN Faulted(value)
  ELSE RankSet_fromNumber(BitAnd(value, Negate(value)))

\* operator|=, operator&=, operator^= (other.toNumber() checks other)
RankSet_orEq(value, other) ==
  IF ~RankSet_checkValid(value) \/ ~RankSet_checkValid(other) THEN Faulted(value)
  ELSE Ok(BitOr(value, other))

RankSet_andEq(value, other) ==
  IF ~RankSet_checkValid(value) \/ ~RankSet_checkValid(other) THEN Faulted(value)
  ELSE Ok(BitAnd(value, other))

RankSet_xorEq(value, other) ==
  IF ~RankSet_checkValid(value) \/ ~RankSet_checkValid(other) THEN Faulted(value)
  ELSE Ok(BitXor(value, other))

\* the asserting operator-= and operator+= on a RankSet
RankSet_minusEq(value, other) ==
  IF \/ ~RankSet_checkValid(value)
     \/ ~(BitAnd(other, value) = other)
     \/ ~RankSet_checkValid(other)
  THEN Faulted(value)
  ELSE Ok(BitAnd(value, BitNot(other)))

RankSet_plusEq(value, other) ==
  IF \/ ~RankSet_checkValid(value)
     \/ ~(BitAnd(other, value) = 0)
     \/ ~RankSet_checkValid(other)
  THEN Faulted(value)
  ELSE Ok(BitOr(value, other))

\* an operator-= (Rank) that masks with the bit instead of its complement
RankSet_minusEqRank_NoComplement(value, r) ==
  IF \/ ~RankSet_checkValid(value)
     \/ ~(BitAnd(Rank_bitMask(r), value) # 0)
  THEN Faulted(value)
  ELSE Ok(BitAnd(value, Rank_bitMask(r)))

\* the asserting operator-= and operator+= on a Rank
RankSet_minusEqRank(value, r) ==
  IF \/ ~RankSet_checkValid(value)
     \/ ~(BitAnd(Rank_bitMask(r), value) # 0)
  THEN Faulted(value)
  ELSE Ok(BitAnd(value, BitNot(Rank_bitMask(r))))

\* an operator+= (Rank) without its assert
RankSet_plusEqRank_NoAssert(value, r) ==
  IF ~RankSet_checkValid(value) THEN Faulted(value)
  ELSE Ok(BitOr(value, Rank_bitMask(r)))

RankSet_plusEqRank(value, r) ==
  IF \/ ~RankSet_checkValid(value)
     \/ ~(BitAnd(Rank_bitMask(r), value) = 0)
  THEN Faulted(value)
  ELSE Ok(BitOr(value, Rank_bitMask(r)))

\* legacy operator++ (int) and operator-- (int): no check
RankSet_inc(value) == Ok((value + 1) % (UShortMax + 1))
RankSet_dec(value) == Ok((value + UShortMax) % (UShortMax + 1))

(***************************************************************************)
(* Priority, and the RankSet queries.  Each query reads a static table     *)
(* filled by a loop over every RankSet and, for each, over the Ranks from  *)
(* Rank::max() down to Rank::min(); the table cell of a RankSet is given   *)
(* here by that inner loop.  An optional<Rank> or optional<Priority>       *)
(* result is its stored byte: the value, or the sentinel when absent.      *)
(***************************************************************************)
Priority_optionalValue == 189

Priority_testOptional(value) == value = Priority_optionalValue

\* the condition of Priority::checkValid's assert
Priority_checkValid(value) == value # 0 /\ value <= 14

Returned(v) == [ret |-> v, fault |-> FALSE]
FaultedCall == [ret |-> 0, fault |-> TRUE]

\* toNumber() and operator unsigned short()
RankSet_toNumber(value) ==
  IF ~RankSet_checkValid(value) THEN FaultedCall ELSE Returned(value)

\* none() and any(): no check
RankSet_none(value) == Returned(value = 0)
RankSet_any(value) == Returned(value # 0)

\* toSingleRank(): the switch over the thirteen single-bit values
\* the default label answering with the Ace whenever it is held
RankSet_toSingleRank_AceOfMany(value) ==
  IF ~RankSet_checkValid(value) THEN FaultedCall
  ELSE Returned(CASE value = 4096 -> 14
                  [] value = 2048 -> 13
                  [] value = 1024 -> 12
                  [] value = 512 -> 11
                  [] value = 256 -> 10
                  [] value = 128 -> 9
                  [] value = 64 -> 8
                  [] value = 32 -> 7
                  [] value = 16 -> 6
                  [] value = 8 -> 5
                  [] value = 4 -> 4
                  [] value = 2 -> 3
                  [] value = 1 -> 2
                  [] value = 0 -> RankT_optionalValue
                  [] OTHER -> IF value > 4096 THEN 14 ELSE RankT_optionalValue)

RankSet_toSingleRank(value) ==
  IF ~RankSet_checkValid(value) THEN FaultedCall
  ELSE Returned(CASE value = 4096 -> 14
                  [] value = 2048 -> 13
                  [] value = 1024 -> 12
                  [] value = 512 -> 11
                  [] value = 256 -> 10
                  [] value = 128 -> 9
                  [] value = 64 -> 8
                  [] value = 32 -> 7
                  [] value = 16 -> 6
                  [] value = 8 -> 5
                  [] value = 4 -> 4
                  [] value = 2 -> 3
                  [] value = 1 -> 2
                  [] value = 0 -> RankT_optionalValue
                  [] OTHER -> RankT_optionalValue)

\* highestRank(): data[rs] is the first r, from the top, with rs.test(r);
\* a cell the loop never assigns stays a default-constructed optional
RECURSIVE highestRank_loop(_, _)
highestRank_loop(rs, r) ==
  IF ~(r >= RankT_minValue("Rank")) THEN RankT_optionalValue
  ELSE IF RankSet_test(rs, r) THEN r
  ELSE highestRank_loop(rs, r - 1)

\* a loop that starts below the Ace
highestRank_data_BelowMax(rs) == highestRank_loop(rs, RankT_maxValue("Rank") - 1)

highestRank_data(rs) == highestRank_loop(rs, RankT_maxValue("Rank"))

RankSet_highestRank(value) ==
  IF ~RankSet_checkValid(value) THEN FaultedCall
  ELSE Returned(highestRank_data(value))

\* count(): data[rs] is the number of r with rs.test(r)
RECURSIVE count_loop(_, _, _)
count_loop(rs, r, result) ==
  IF ~(r >= RankT_minValue("Rank")) THEN result
  ELSE count_loop(rs, r - 1, IF RankSet_test(rs, r) THEN result + 1 ELSE result)

count_data(rs) == count_loop(rs, RankT_maxValue("Rank"), 0)

RankSet_count(value) ==
  IF ~RankSet_checkValid(value) THEN FaultedCall
  ELSE Returned(count_data(value))

\* priorityIfInHand(rank): data[rs][r - Rank::min()] is ord, counted from
\* the top over the ranks present, or 0 for a rank that is not present
RECURSIVE priority_loop(_, _, _, _)
priority_loop(rs, r, ord, rank) ==
  IF RankSet_test(rs, r)
    THEN IF r = rank THEN ord + 1 ELSE priority_loop(rs, r - 1, ord + 1, rank)
    ELSE IF r = rank THEN 0 ELSE priority_loop(rs, r - 1, ord, rank)

\* a table whose ord starts at 1
priority_data_OrdFromOne(rs, rank) == priority_loop(rs, RankT_maxValue("Rank"), 1, rank)

priority_data(rs, rank) == priority_loop(rs, RankT_maxValue("Rank"), 0, rank)

\* a priorityIfInHand that hands out zero-based priorities
RankSet_priorityIfInHand_ZeroBased(value, rank) ==
  IF ~RankSet_checkValid(value) \/ ~RankT_checkValid("Rank", rank) THEN FaultedCall
  ELSE IF rank < 2 THEN Returned(Priority_optionalValue)
  ELSE LET temp == priority_data(value, rank)
       IN  IF temp = 0 THEN Returned(Priority_optionalValue)
           ELSE Returned(temp - 1)

RankSet_priorityIfInHand(value, rank) ==
  IF ~RankSet_checkValid(value) \/ ~RankT_checkValid("Rank", rank) THEN FaultedCall
  ELSE IF rank < 2 THEN Returned(Priority_optionalValue)
  ELSE LET temp == priority_data(value, rank)
       IN  IF temp = 0 THEN Returned(Priority_optionalValue)
           ELSE IF ~Priority_checkValid(temp) THEN FaultedCall
           ELSE Returned(temp)

\* priority(rank): *priorityIfInHand(rank)
RankSet_priority(value, rank) ==
  LET opt == RankSet_priorityIfInHand(value, rank)
  IN  IF opt.fault \/ Priority_testOptional(opt.ret) THEN FaultedCall ELSE opt

\* winRanks(leastWin): winRanksData[rs][lw - 1] collects, from the top, the
\* ranks present while nextBitNo <= lw
RECURSIVE winRanks_loop(_, _, _, _, _)
winRanks_loop(rs, lw, r, nextBitNo, result) ==
  IF ~(r >= RankT_minValue("Rank")) THEN result
  ELSE IF RankSet_test(rs, r)
    THEN IF nextBitNo <= lw
           THEN winRanks_loop(rs, lw, r - 1, nextBitNo + 1,
                              RankSet_plusEqRank(result, r).value)
           ELSE result
    ELSE winRanks_loop(rs, lw, r - 1, nextBitNo, result)

\* a table whose nextBitNo starts at 0
winRanks_data_BitNoFromZero(rs, lw) == winRanks_loop(rs, lw, RankT_maxValue("Rank"), 0, 0)

winRanks_data(rs, lw) == winRanks_loop(rs, lw, RankT_maxValue("Rank"), 1, 0)

RankSet_winRanks(value, leastWin) ==
  IF ~RankSet_checkValid(value) THEN FaultedCall
  ELSE IF leastWin = 0 THEN Returned(0)
  ELSE IF ~(leastWin < 14) THEN FaultedCall
  ELSE Returned(winRanks_data(value, leastWin))

(***************************************************************************)
(* RankSet construction, shared by the RankSet specifications.             *)
(***************************************************************************)
IsRankSet == obj.type = "RankSet"

CtorOps == {"ctor", "defaultCtor", "limitCtor", "rankCtor"}

\* explicit RankSet(unsigned short value)
RankSet_ctor(v) ==
  /\ obj = NoObject
  /\ obj' = [type |-> "RankSet", value |-> v]
  /\ call' = [op |-> "ctor", arg |-> v, fault |-> RankSet_fromNumber(v).fault]
  /\ UNCHANGED hist

\* RankSet()
RankSet_defaultCtor ==
  /\ obj = NoObject
  /\ obj' = [type |-> "RankSet", value |-> 0]
  /\ call' = [op |-> "defaultCtor", fault |-> FALSE]
  /\ UNCHANGED hist

\* RankSet(limitType limit): no check
RankSet_limitCtor(limit) ==
  /\ obj = NoObject
  /\ obj' = [type |-> "RankSet", value |-> limit]
  /\ call' = [op |-> "limitCtor", arg |-> limit, fault |-> FALSE]
  /\ UNCHANGED hist

\* explicit RankSet(Rank const & rank)
RankSet_rankCtor(r) ==
  /\ obj = NoObject
  /\ obj' = [type |-> "RankSet", value |-> RankSet_fromRank(r).value]
  /\ call' = [op |-> "rankCtor", arg |-> r, fault |-> RankSet_fromRank(r).fault]
  /\ UNCHANGED hist

Construct ==
  /\ obj = NoObject
  /\ \/ \E v \in UShort : RankSet_ctor(v)
     \/ RankSet_defaultCtor
     \/ \E limit \in {RankSet_minValue, RankSet_maxValue} : RankSet_limitCtor(limit)
     \/ \E r \in Ranks : RankSet_rankCtor(r)

\* the object has just been constructed
Fresh == IsRankSet /\ call.op \in CtorOps /\ ~call.fault

RankOps == {"reset", "set", "flip", "minusEqRank", "plusEqRank"}
SetOps == {"orEq", "andEq", "xorEq", "minusEq", "plusEq"}
AllOps == {"resetAll", "setAll", "flipAll"}
DeriveOps == {"complement", "toLowest", "cloneOnlyLSB"}
LegacyOps == {"inc", "dec"}

applyRankOp(op, value, r) ==
  CASE op = "reset" -> RankSet_resetRank(value, r)
    [] op = "set" -> RankSet_setRank(value, r)
    [] op = "flip" -> RankSet_flipRank(value, r)
    [] op = "minusEqRank" -> RankSet_minusEqRank(value, r)
    [] op = "plusEqRank" -> RankSet_plusEqRank(value, r)

applySetOp(op, value, other) ==
  CASE op = "orEq" -> RankSet_orEq(value, other)
    [] op = "andEq" -> RankSet_andEq(value, other)
    [] op = "xorEq" -> RankSet_xorEq(value, other)
    [] op = "minusEq" -> RankSet_minusEq(value, other)
    [] op = "plusEq" -> RankSet_plusEq(value, other)

applyAllOp(op, value) ==
  CASE op = "resetAll" -> RankSet_resetAll(value)
    [] op = "setAll" -> RankSet_setAll(value)
    [] op = "flipAll" -> RankSet_flipAll(value)

applyDeriveOp(op, value) ==
  CASE op = "complement" -> RankSet_complement(value)
    [] op = "toLowest" -> RankSet_toLowest(value)
    [] op = "cloneOnlyLSB" -> RankSet_cloneOnlyLSB(value)

applyLegacyOp(op, value) ==
  CASE op = "inc" -> RankSet_inc(value)
    [] op = "dec" -> RankSet_dec(value)

\* the RankSet operands tried: the sets of the lowest ranks and their
\* complements
MaxOperand == 3
OperandSets ==
  {k : k \in 0..MaxOperand} \cup {RankSet_maxValue - k : k \in 0..MaxOperand}

(***************************************************************************)
(* SpecRankSetOp: a RankSet is constructed and one modifying operation is  *)
(* applied to it; the call record keeps the value before the call.         *)
(***************************************************************************)
RankSet_rankOp(op, r) ==
  /\ Fresh
  /\ LET res == applyRankOp(op, obj.value, r)
     IN  /\ obj' = [obj EXCEPT !.value = res.value]
         /\ call' = [op |-> op, arg |-> r, before |-> obj.value, fault |-> res.fault]
  /\ UNCHANGED hist

RankSet_setOp(op, other) ==
  /\ Fresh
  /\ LET res == applySetOp(op, obj.value, other)
     IN  /\ obj' = [obj EXCEPT !.value = res.value]
         /\ call' = [op |-> op, arg |-> other, before |-> obj.value, fault |-> res.fault]
  /\ UNCHANGED hist

RankSet_allOp(op) ==
  /\ Fresh
  /\ LET res == applyAllOp(op, obj.value)
     IN  /\ obj' = [obj EXCEPT !.value = res.value]
         /\ call' = [op |-> op, before |-> obj.value, fault |-> res.fault]
  /\ UNCHANGED hist

\* operator~, toLowest(), cloneOnlyLSB(): *this is kept, a RankSet is returned
RankSet_deriveOp(op) ==
  /\ Fresh
  /\ LET res == applyDeriveOp(op, obj.value)
     IN  call' = [op |-> op, before |-> obj.value, ret |-> res.value, fault |-> res.fault]
  /\ UNCHANGED <<obj, hist>>

RankSet_legacyOp(op) ==
  /\ Fresh
  /\ LET res == applyLegacyOp(op, obj.value)
     IN  /\ obj' = [obj EXCEPT !.value = res.value]
         /\ call' = [op |-> op, before |-> obj.value, fault |-> res.fault]
  /\ UNCHANGED hist

InitRankSet == obj = NoObject /\ call = NoCall /\ hist = NoHist

NextRankSetOp ==
  \/ Construct
  \/ /\ Fresh
     /\ \/ \E op \in RankOps, r \in Ranks : RankSet_rankOp(op, r)
        \/ \E op \in SetOps, other \in OperandSets : RankSet_setOp(op, other)
        \/ \E op \in AllOps : RankSet_allOp(op)
        \/ \E op \in DeriveOps : RankSet_deriveOp(op)
        \/ \E op \in LegacyOps : RankSet_legacyOp(op)

SpecRankSetOp == InitRankSet /\ [][NextRankSetOp]_vars

(***************************************************************************)
(* SpecRankSetQuery: a RankSet is constructed and one query is made.       *)
(***************************************************************************)
Queries == {"toNumber", "none", "any", "toSingleRank", "highestRank", "count"}
RankQueries == {"test", "priorityIfInHand", "priority"}
LeastWinArgs == 0..(Suit_numCards + 1)

applyQuery(op, value) ==
  CASE op = "toNumber" -> RankSet_toNumber(value)
    [] op = "none" -> RankSet_none(value)
    [] op = "any" -> RankSet_any(value)
    [] op = "toSingleRank" -> RankSet_toSingleRank(value)
    [] op = "highestRank" -> RankSet_highestRank(value)
    [] op = "count" -> RankSet_count(value)

applyRankQuery(op, value, r) ==
  CASE op = "test" -> IF ~RankSet_checkValid(value) THEN FaultedCall
                      ELSE Returned(RankSet_test(value, r))
    [] op = "priorityIfInHand" -> RankSet_priorityIfInHand(value, r)
    [] op = "priority" -> RankSet_priority(value, r)

RankSet_query(op) ==
  /\ Fresh
  /\ LET res == applyQuery(op, obj.value)
     IN  call' = [op |-> op, before |-> obj.value, ret |-> res.ret, fault |-> res.fault]
  /\ UNCHANGED <<obj, hist>>

RankSet_rankQuery(op, r) ==
  /\ Fresh
  /\ LET res == applyRankQuery(op, obj.value, r)
     IN  call' = [op |-> op, arg |-> r, before |-> obj.value, ret |-> res.ret,
                  fault |-> res.fault]
  /\ UNCHANGED <<obj, hist>>

RankSet_winRanksCall(leastWin) ==
  /\ Fresh
  /\ LET res == RankSet_winRanks(obj.value, leastWin)
     IN  call' = [op |-> "winRanks", arg |-> leastWin, before |-> obj.value,
                  ret |-> res.ret, fault |-> res.fault]
  /\ UNCHANGED <<obj, hist>>

NextRankSetQuery ==
  \/ Construct
  \/ /\ Fresh
     /\ \/ \E op \in Queries : RankSet_query(op)
        \/ \E op \in RankQueries, r \in Ranks : RankSet_rankQuery(op, r)
        \/ \E leastWin \in LeastWinArgs : RankSet_winRanksCall(leastWin)

SpecRankSetQuery == InitRankSet /\ [][NextRankSetQuery]_vars

(***************************************************************************)
(* SpecRankSet: a RankSet is constructed and any sequence of its modifying *)
(* operations is applied to it.  The call record keeps only the kind of    *)
(* the last operation.  The legacy ++ and -- are followed MaxOvershoot     *)
(* steps beyond either end of the domain.                                  *)
(***************************************************************************)
MaxOvershoot == 2

InLegacyRange(v) ==
  \/ v <= RankSet_maxValue + MaxOvershoot
  \/ v >= UShortMax + 1 - MaxOvershoot

RankSetSeq_rankOp(op, r) ==
  LET res == applyRankOp(op, obj.value, r)
  IN  /\ obj' = [obj EXCEPT !.value = res.value]
      /\ call' = [op |-> "mutator", fault |-> res.fault]
      /\ UNCHANGED hist

RankSetSeq_setOp(op, other) ==
  LET res == applySetOp(op, obj.value, other)
  IN  /\ obj' = [obj EXCEPT !.value = res.value]
      /\ call' = [op |-> "mutator", fault |-> res.fault]
      /\ UNCHANGED hist

RankSetSeq_allOp(op) ==
  LET res == applyAllOp(op, obj.value)
  IN  /\ obj' = [obj EXCEPT !.value = res.value]
      /\ call' = [op |-> "mutator", fault |-> res.fault]
      /\ UNCHANGED hist

\* rs = ~rs, rs = rs.toLowest(), rs = rs.cloneOnlyLSB()
RankSetSeq_deriveOp(op) ==
  LET res == applyDeriveOp(op, obj.value)
  IN  /\ obj' = [obj EXCEPT !.value = res.value]
      /\ call' = [op |-> "mutator", fault |-> res.fault]
      /\ UNCHANGED hist

RankSetSeq_legacyOp(op) ==
  LET res == applyLegacyOp(op, obj.value)
  IN  /\ InLegacyRange(res.value)
      /\ obj' = [obj EXCEPT !.value = res.value]
      /\ call' = [op |-> "legacy", fault |-> res.fault]
      /\ UNCHANGED hist

NextRankSet ==
  \/ Construct
  \/ /\ IsRankSet /\ Running
     /\ \/ \E op \in RankOps, r \in Ranks : RankSetSeq_rankOp(op, r)
        \/ \E op \in SetOps, other \in OperandSets : RankSetSeq_setOp(op, other)
        \/ \E op \in AllOps : RankSetSeq_allOp(op)
        \/ \E op \in DeriveOps : RankSetSeq_deriveOp(op)
        \/ \E op \in LegacyOps : RankSetSeq_legacyOp(op)

SpecRankSet == InitRankSet /\ [][NextRankSet]_vars

(***************************************************************************)
(* C4: in every state reachable from a validly constructed RankSet by any  *)
(* sequence of the public operations, the legacy ++ and -- included, the   *)
(* stored value is <= 2^13 - 1.                                            *)
(***************************************************************************)
C4_RankSetInvariant ==
  (IsRankSet /\ ~call.fault) => obj.value <= 8191

(***************************************************************************)
(* C4, amended: the stored value is <= 2^13 - 1 in every state reached by  *)
(* a construction or an operation other than the legacy ++ and -- that     *)
(* completed without fault, whatever came before it.                       *)
(***************************************************************************)
C4_RankSetInvariantUnlessLegacy ==
  (IsRankSet /\ ~call.fault /\ call.op # "legacy") => obj.value <= 8191

C4_Witness ==
  IsRankSet /\ call.op = "mutator" /\ ~call.fault /\ obj.value = 8191

(***************************************************************************)
(* Membership read off the stored value by arithmetic, for the statements  *)
(* below: rank r is in the set iff bit r - 2 of the value is 1.            *)
(***************************************************************************)
Member(v, r) == (v \div 2^(r - 2)) % 2 = 1
Present(v) == {r \in 2..14 : Member(v, r)}
Min(a, b) == IF a <= b THEN a ELSE b

(***************************************************************************)
(* C5: for every RankSet S and Rank r: if r is not in S then after         *)
(* S.set(r) the count is the old count + 1 and test(r) is true; if r is in *)
(* S then after S.reset(r) the count is the old count - 1 and test(r) is   *)
(* false.                                                                  *)
(***************************************************************************)
C5_SetResetCount ==
  (IsRankSet /\ call.op \in {"set", "reset"}) =>
    LET S == call.before
        r == call.arg
    IN  /\ (call.op = "set" /\ ~RankSet_test(S, r)) =>
             /\ ~call.fault
             /\ RankSet_count(obj.value).ret = RankSet_count(S).ret + 1
             /\ RankSet_test(obj.value, r)
        /\ (call.op = "reset" /\ RankSet_test(S, r)) =>
             /\ ~call.fault
             /\ RankSet_count(obj.value).ret = RankSet_count(S).ret - 1
             /\ ~RankSet_test(obj.value, r)

C5_Witness ==
  /\ IsRankSet /\ call.op = "reset" /\ ~call.fault
  /\ call.before = 8191 /\ call.arg = 14 /\ obj.value = 4095

(***************************************************************************)
(* C9: rs += r faults iff r is already in rs and rs -= r faults iff r is   *)
(* not in rs (with a RankSet operand: += faults iff the operands           *)
(* intersect, -= faults iff the operand is not a subset); when they do not *)
(* fault they leave what set / reset (union / difference) leave; and set,  *)
(* reset, flip, |=, &=, ^= and ~ never fault on valid operands.            *)
(***************************************************************************)
C9_AssertingOperations ==
  IsRankSet =>
    /\ call.op = "plusEqRank" =>
         /\ call.fault <=> Member(call.before, call.arg)
         /\ ~call.fault => obj.value = RankSet_setRank(call.before, call.arg).value
    /\ call.op = "minusEqRank" =>
         /\ call.fault <=> ~Member(call.before, call.arg)
         /\ ~call.fault => obj.value = RankSet_resetRank(call.before, call.arg).value
    /\ call.op = "plusEq" =>
         /\ call.fault <=> (Present(call.before) \cap Present(call.arg) # {})
         /\ ~call.fault =>
              Present(obj.value) = Present(call.before) \cup Present(call.arg)
    /\ call.op = "minusEq" =>
         /\ call.fault <=> ~(Present(call.arg) \subseteq Present(call.before))
         /\ ~call.fault =>
              Present(obj.value) = Present(call.before) \ Present(call.arg)
    /\ call.op \in {"set", "reset", "flip", "orEq", "andEq", "xorEq", "complement"} =>
         ~call.fault

C9_Witness ==
  /\ IsRankSet /\ call.op = "plusEqRank" /\ call.fault
  /\ call.before = 4096 /\ call.arg = 14

C7_WinRanksTopK ==
  (IsRankSet /\ call.op = "winRanks" /\ call.arg \in 0..13) =>
    /\ ~call.fault
    /\ LET S == call.before
           k == call.arg
           P == Present(S)
           W == Present(call.ret)
       IN  /\ call.ret \in 0..8191
           /\ Cardinality(W) = Min(k, RankSet_count(S).ret)
           /\ Cardinality(W) = Min(k, Cardinality(P))
           /\ W \subseteq P
           /\ \A w \in W : Cardinality({q \in P : q > w}) < k
           /\ k = 0 => call.ret = 0

C7_Witness ==
  /\ IsRankSet /\ call.op = "winRanks" /\ ~call.fault
  /\ call.before = 21 /\ call.arg = 2 /\ call.ret = 20

(***************************************************************************)
(* SpecRoundTrip: starting from the empty RankSet, ranks are added with    *)
(* += (each rank at most once, at most MaxAdds of them) and ranks that     *)
(* were added are removed with -= (each at most once), in any order.       *)
(* hist records which ranks were added and which removed.                  *)
(***************************************************************************)
MaxAdds == 4

RoundTrip_start ==
  /\ obj = NoObject
  /\ obj' = [type |-> "RankSet", value |-> 0]
  /\ call' = [op |-> "defaultCtor", fault |-> FALSE]
  /\ UNCHANGED hist

RoundTrip_add(r) ==
  LET res == RankSet_plusEqRank(obj.value, r)
  IN  /\ r \notin hist.added
      /\ Cardinality(hist.added) < MaxAdds
      /\ obj' = [obj EXCEPT !.value = res.value]
      /\ call' = [op |-> "plusEqRank", fault |-> res.fault]
      /\ hist' = [hist EXCEPT !.added = @ \cup {r}]

RoundTrip_remove(r) ==
  LET res == RankSet_minusEqRank(obj.value, r)
  IN  /\ r \in hist.added \ hist.removed
      /\ obj' = [obj EXCEPT !.value = res.value]
      /\ call' = [op |-> "minusEqRank", fault |-> res.fault]
      /\ hist' = [hist EXCEPT !.removed = @ \cup {r}]

NextRoundTrip ==
  \/ RoundTrip_start
  \/ /\ IsRankSet /\ Running
     /\ \/ \E r \in Ranks : RoundTrip_add(r)
        \/ \E r \in Ranks : RoundTrip_remove(r)

SpecRoundTrip == InitRankSet /\ [][NextRoundTrip]_vars

(***************************************************************************)
(* C8: starting from the empty RankSet, adding distinct ranks with += and  *)
(* removing them with -= in any order never faults; the set held is the    *)
(* ranks added and not yet removed, whatever the order of the operations;  *)
(* and once every added rank has been removed the set is empty again.      *)
(***************************************************************************)
C8_RoundTrip ==
  IsRankSet =>
    /\ ~call.fault
    /\ obj.value \in RankSets
    /\ Present(obj.value) = hist.added \ hist.removed
    /\ hist.added = hist.removed => obj.value = 0

C8_Witness ==
  /\ IsRankSet /\ call.op = "minusEqRank" /\ ~call.fault
  /\ Cardinality(hist.added) >= 3
  /\ hist.removed = hist.added
  /\ obj.value = 0

(***************************************************************************)
(* SpecializeOptional<T>: T with one reserved bit pattern for "absent".    *)
(* obj is the optional (its type names T, its value is T::value); hist     *)
(* records whether the optional was given a value and which.               *)
(***************************************************************************)
OptionalTypes ==
  {"Rank", "AnyRank", "Priority", "Direction", "Position", "RankSet",
   "Suit", "Strain"}

Direction_optionalValue == 189
Direction_maxValue == 3
Direction_checkValid(value) == value <= Direction_maxValue

Position_optionalValue == 189
Position_checkValid(value) == value <= 3

\* T::optionalValue
T_optionalValue(type) ==
  CASE type \in RankTypes -> RankT_optionalValue
    [] type \in StrainTypes -> StrainT_optionalValue
    [] type = "Priority" -> Priority_optionalValue
    [] type = "Direction" -> Direction_optionalValue
    [] type = "Position" -> Position_optionalValue
    [] type = "RankSet" -> RankSet_optionalValue

\* T::testOptional()
T_testOptional(type, value) == value = T_optionalValue(type)

\* T::checkValid(), as DDS_CARDDEFS_CHECKVALID() calls it
T_checkValid(type, value) ==
  CASE type \in RankTypes -> RankT_checkValid(type, value)
    [] type \in StrainTypes -> StrainT_checkValid(noTrumpOk(type), value, FALSE)
    [] type = "Priority" -> Priority_checkValid(value)
    [] type = "Direction" -> Direction_checkValid(value)
    [] type = "Position" -> Position_checkValid(value)
    [] type = "RankSet" -> RankSet_checkValid(value)

\* the width of T::value
T_values(type) == IF type = "RankSet" THEN UShort ELSE UChar

Absent == [present |-> FALSE, held |-> 0]
Holding(v) == [present |-> TRUE, held |-> v]

\* SpecializeOptional () and SpecializeOptional (nullopt_t const &)
SpecializeOptional_defaultCtor(type) ==
  /\ obj' = [type |-> type, value |-> T_optionalValue(type)]
  /\ call' = [op |-> "defaultCtor", arg |-> 0, ret |-> 0, fault |-> FALSE]
  /\ hist' = Absent

SpecializeOptional_nulloptCtor(type) ==
  /\ obj' = [type |-> type, value |-> T_optionalValue(type)]
  /\ call' = [op |-> "nulloptCtor", arg |-> 0, ret |-> 0, fault |-> FALSE]
  /\ hist' = Absent

\* SpecializeOptional (T const & value), on the T that T (v) constructs
SpecializeOptional_ctor(type, v) ==
  /\ obj' = [type |-> type, value |-> v]
  /\ call' = [op |-> "ctor", arg |-> v, ret |-> 0,
              fault |-> ~T_checkValid(type, v)]
  /\ hist' = IF T_checkValid(type, v) THEN Holding(v) ELSE Absent

\* operator= (nullopt_t const &)
SpecializeOptional_assignNullopt ==
  /\ obj' = [obj EXCEPT !.value = T_optionalValue(obj.type)]
  /\ call' = [op |-> "assignNullopt", arg |-> 0, ret |-> 0, fault |-> FALSE]
  /\ hist' = Absent

\* explicit operator bool()
SpecializeOptional_bool ==
  /\ call' = [op |-> "bool", arg |-> 0,
              ret |-> IF ~T_testOptional(obj.type, obj.value) THEN 1 ELSE 0,
              fault |-> FALSE]
  /\ UNCHANGED <<obj, hist>>

\* an operator* without its assert
deref_NoAssert(type, value) == Returned(value)

\* operator* ()
deref(type, value) ==
  IF T_testOptional(type, value) THEN FaultedCall ELSE Returned(value)

SpecializeOptional_deref ==
  LET res == deref(obj.type, obj.value)
  IN  /\ call' = [op |-> "deref", arg |-> 0, ret |-> res.ret, fault |-> res.fault]
      /\ UNCHANGED <<obj, hist>>

\* T::toNumber() / T::operator unsigned char() / operator unsigned short()
T_toNumber(type, value) ==
  IF ~T_checkValid(type, value) THEN FaultedCall ELSE Returned(value)

SpecializeOptional_toNumber ==
  LET res == T_toNumber(obj.type, obj.value)
  IN  /\ call' = [op |-> "toNumber", arg |-> 0, ret |-> res.ret, fault |-> res.fault]
      /\ UNCHANGED <<obj, hist>>

\* the optionals an optional is compared with: the absent one and those
\* holding a value up to MaxRhs that T's constructor accepts
MaxRhs == 15

RhsValues(type) ==
  {T_optionalValue(type)} \cup {v \in 0..MaxRhs : T_checkValid(type, v)}

\* T has an implicit conversion to an integer (AnyRank has none)
hasIntegerConversion(type) == type # "AnyRank"

Compared(r, f, d) == [ret |-> r, fault |-> f, diverges |-> d]

\* operator== (SpecializeOptional const & rhs), where *this or rhs is absent.
\* With both present it hands over to operator== (T const &), whose body
\* applies unary * to a T; that case is left out.
Optional_eq(type, value, rhs) ==
  IF T_testOptional(type, value)
  THEN Compared(IF T_testOptional(type, rhs) THEN 1 ELSE 0, FALSE, FALSE)
  ELSE Compared(0, FALSE, FALSE)

\* operator!= (SpecializeOptional const & rhs).  "return rhs;" cannot use
\* the explicit operator bool: rhs is read through T's integer conversion,
\* which checks validity.  "return *this != *this;" calls this operator
\* again with both operands *this, which is present: it never returns.
Optional_ne(type, value, rhs) ==
  IF T_testOptional(type, value)
  THEN IF T_toNumber(type, rhs).fault THEN Compared(0, TRUE, FALSE)
       ELSE Compared(IF T_toNumber(type, rhs).ret # 0 THEN 1 ELSE 0, FALSE, FALSE)
  ELSE IF T_testOptional(type, rhs) THEN Compared(1, FALSE, FALSE)
  ELSE Compared(0, FALSE, TRUE)

SpecializeOptional_eq(rhs) ==
  LET res == Optional_eq(obj.type, obj.value, rhs)
  IN  /\ T_testOptional(obj.type, obj.value) \/ T_testOptional(obj.type, rhs)
      /\ call' = [op |-> "eq", arg |-> rhs, ret |-> res.ret, fault |-> res.fault,
                  diverges |-> res.diverges]
      /\ UNCHANGED <<obj, hist>>

SpecializeOptional_ne(rhs) ==
  LET res == Optional_ne(obj.type, obj.value, rhs)
  IN  /\ hasIntegerConversion(obj.type)
      /\ call' = [op |-> "ne", arg |-> rhs, ret |-> res.ret, fault |-> res.fault,
                  diverges |-> res.diverges]
      /\ UNCHANGED <<obj, hist>>

\* the last call never returns
Diverged == call.op = "ne" /\ call.diverges

InitOptional == obj = NoObject /\ call = NoCall /\ hist = Absent

NextOptional ==
  \/ /\ obj = NoObject
     /\ \/ \E type \in OptionalTypes : SpecializeOptional_defaultCtor(type)
        \/ \E type \in OptionalTypes : SpecializeOptional_nulloptCtor(type)
        \/ \E type \in OptionalTypes :
             \E v \in T_values(type) : SpecializeOptional_ctor(type, v)
  \/ /\ obj # NoObject /\ Running /\ ~Diverged
     /\ \/ SpecializeOptional_assignNullopt
        \/ SpecializeOptional_bool
        \/ SpecializeOptional_deref
        \/ SpecializeOptional_toNumber
        \/ \E rhs \in RhsValues(obj.type) : SpecializeOptional_eq(rhs)
        \/ \E rhs \in RhsValues(obj.type) : SpecializeOptional_ne(rhs)

SpecOptional == InitOptional /\ [][NextOptional]_vars

\* the legal domain of each type
Domain(type) ==
  CASE type = "Rank" -> 2..14
    [] type = "AnyRank" -> {0} \cup 2..14
    [] type = "Priority" -> 1..14
    [] type = "Direction" -> 0..3
    [] type = "Position" -> 0..3
    [] type = "RankSet" -> 0..8191
    [] type = "Suit" -> 0..3
    [] type = "Strain" -> 0..4

(***************************************************************************)
(* C10: for every sentinel-encoded optional type the sentinel lies outside *)
(* the legal domain; a default-constructed, nullopt-constructed or         *)
(* nullopt-assigned optional tests false; an optional built from a valid   *)
(* value tests true and dereferences to that value; operator* and every    *)
(* checked read (toNumber / integer conversion) of an absent optional      *)
(* fault.                                                                  *)
(***************************************************************************)
C10_AbsentNeverReadAsReal ==
  obj # NoObject =>
    /\ T_optionalValue(obj.type) \notin Domain(obj.type)
    /\ call.op \in {"defaultCtor", "nulloptCtor", "assignNullopt"} =>
         /\ ~hist.present
         /\ T_testOptional(obj.type, obj.value)
    /\ call.op = "ctor" =>
         /\ call.arg \in Domain(obj.type) => ~call.fault
         /\ ~call.fault =>
              /\ hist.present
              /\ ~T_testOptional(obj.type, obj.value)
              /\ obj.value = call.arg
    /\ call.op = "bool" => (call.ret = 1 <=> hist.present)
    /\ call.op = "deref" =>
         /\ call.fault <=> ~hist.present
         /\ ~call.fault => call.ret = hist.held
    /\ call.op = "toNumber" =>
         /\ ~hist.present => call.fault
         /\ (hist.present /\ hist.held \in Domain(obj.type)) =>
              (~call.fault /\ call.ret = hist.held)

C10_Witness ==
  /\ obj.type = "RankSet" /\ obj.value = RankSet_optionalValue
  /\ call.op = "deref" /\ call.fault /\ ~hist.present

(***************************************************************************)
(* C11: for every RankSet S, highestRank() is absent iff S is empty, and   *)
(* otherwise is present and is the largest Rank r in 2..14 with S.test(r). *)
(***************************************************************************)
C11_HighestRank ==
  (IsRankSet /\ call.op = "highestRank") =>
    LET S == call.before
    IN  /\ ~call.fault
        /\ RankT_testOptional(call.ret) <=> S = 0
        /\ S # 0 =>
             /\ call.ret \in 2..14
             /\ RankSet_test(S, call.ret)
             /\ Member(S, call.ret)
             /\ \A q \in 2..14 : RankSet_test(S, q) => q <= call.ret

C11_Witness ==
  /\ IsRankSet /\ call.op = "highestRank" /\ ~call.fault
  /\ call.before = 2080 /\ call.ret = 13

(***************************************************************************)
(* Direction (North 0, East 1, South 2, West 3) and Position (First 0 ..   *)
(* Fourth 3).  obj is a Direction.  hist keeps the value the Direction was *)
(* constructed with, the derivations applied to it since (d = d.lho(),     *)
(* ...), and the Position object last constructed.                         *)
(***************************************************************************)
IsDirection == obj.type = "Direction"

lhoData == <<1, 2, 3, 0>>
rhoData == <<3, 0, 1, 2>>
partnerData == <<2, 3, 0, 1>>

Direction_lho(value) ==
  IF ~Direction_checkValid(value) THEN Faulted(value) ELSE Ok(lhoData[value + 1])

\* an rho() that turns the same way as lho()
Direction_rho_AsLho(value) ==
  IF ~Direction_checkValid(value) THEN Faulted(value) ELSE Ok(lhoData[value + 1])

Direction_rho(value) ==
  IF ~Direction_checkValid(value) THEN Faulted(value) ELSE Ok(rhoData[value + 1])

Direction_partner(value) ==
  IF ~Direction_checkValid(value) THEN Faulted(value) ELSE Ok(partnerData[value + 1])

\* Direction::toNumber() and operator unsigned char()
Direction_toNumber(value) ==
  IF ~Direction_checkValid(value) THEN FaultedCall ELSE Returned(value)

NoPosition == [from |-> "none", value |-> 0, leading |-> 0, relative |-> 0]
NoPath == [orig |-> 0, path |-> <<>>, pos |-> NoPosition]

DirectionOps == {"lho", "rho", "partner"}

applyDirectionOp(op, value) ==
  CASE op = "lho" -> Direction_lho(value)
    [] op = "rho" -> Direction_rho(value)
    [] op = "partner" -> Direction_partner(value)

\* explicit Direction (unsigned char value)
Direction_ctor(v) ==
  /\ obj' = [type |-> "Direction", value |-> v]
  /\ call' = [op |-> "ctor", arg |-> v, before |-> 0, ret |-> 0,
              fault |-> ~Direction_checkValid(v)]
  /\ hist' = [hist EXCEPT !.orig = v]

\* Direction (limitType limit)
Direction_limitCtor(limit) ==
  /\ obj' = [type |-> "Direction", value |-> limit]
  /\ call' = [op |-> "limitCtor", arg |-> limit, before |-> 0, ret |-> 0,
              fault |-> FALSE]
  /\ hist' = [hist EXCEPT !.orig = limit]

MaxPath == 4

\* d = d.lho(), d = d.rho(), d = d.partner()
Direction_derive(op) ==
  LET res == applyDirectionOp(op, obj.value)
  IN  /\ Len(hist.path) < MaxPath
      /\ obj' = [obj EXCEPT !.value = res.value]
      /\ call' = [op |-> op, arg |-> 0, before |-> obj.value, ret |-> res.value,
                  fault |-> res.fault]
      /\ hist' = [hist EXCEPT !.path = Append(@, op)]

Direction_toNumberCall ==
  LET res == Direction_toNumber(obj.value)
  IN  /\ call' = [op |-> "toNumber", arg |-> 0, before |-> obj.value,
                  ret |-> res.ret, fault |-> res.fault]
      /\ UNCHANGED <<obj, hist>>

InitDirection == obj = NoObject /\ call = NoCall /\ hist = NoPath

NextDirection ==
  \/ /\ obj = NoObject
     /\ \/ \E v \in UChar : Direction_ctor(v)
        \/ \E limit \in {0, Direction_maxValue} : Direction_limitCtor(limit)
  \/ /\ IsDirection /\ Running
     /\ \/ \E op \in DirectionOps : Direction_derive(op)
        \/ Direction_toNumberCall

SpecDirection == InitDirection /\ [][NextDirection]_vars

(***************************************************************************)
(* C13: Direction is cyclic: for every Direction d, d.lho().rho() = d,     *)
(* d.rho().lho() = d, d.partner().partner() = d, d.lho().lho() =           *)
(* d.partner(), lho() applied four times returns d, and d, d.lho(),        *)
(* d.partner(), d.rho() are four distinct valid Directions.                *)
(***************************************************************************)
C13_DirectionCyclic ==
  (IsDirection /\ Direction_checkValid(hist.orig) /\ hist.path # <<>>) =>
    LET d == hist.orig
    IN  /\ ~call.fault
        /\ Direction_checkValid(obj.value)
        /\ hist.path = <<"lho", "rho">> => obj.value = d
        /\ hist.path = <<"rho", "lho">> => obj.value = d
        /\ hist.path = <<"partner", "partner">> => obj.value = d
        /\ hist.path = <<"lho", "lho">> => obj.value = Direction_partner(d).value
        /\ hist.path = <<"lho", "lho", "lho", "lho">> => obj.value = d
        /\ Len(hist.path) = 1 =>
             /\ obj.value # d
             /\ Cardinality({d, Direction_lho(d).value, Direction_partner(d).value,
                             Direction_rho(d).value}) = 4
             /\ {d, Direction_lho(d).value, Direction_partner(d).value,
                 Direction_rho(d).value} = 0..3

C13_Witness ==
  /\ IsDirection /\ ~call.fault
  /\ hist.orig = 3 /\ hist.path = <<"lho", "lho", "lho", "lho">> /\ obj.value = 3

(***************************************************************************)
(* SpecPosition: a Direction is constructed; Positions are constructed     *)
(* from a number or from the Direction and a second Direction, stepped     *)
(* back, read, and added to the Direction.                                 *)
(***************************************************************************)
Directions == {v \in UChar : Direction_checkValid(v)}

\* Position (unsigned char value)
Position_fromNumber(v) == IF Position_checkValid(v) THEN Ok(v) ELSE Faulted(v)

\* Position (Direction const & leading, Direction const & relative): both
\* operands of + are read through Direction::operator unsigned char()
Position_fromDirections(leading, relative) ==
  IF Direction_toNumber(leading).fault \/ Direction_toNumber(relative).fault
  THEN Faulted(0)
  ELSE Position_fromNumber(
         BitAnd(Direction_toNumber(leading).ret + Direction_toNumber(relative).ret, 3))

\* Position::toNumber() and operator unsigned char()
Position_toNumber(value) ==
  IF ~Position_checkValid(value) THEN FaultedCall ELSE Returned(value)

Position_oneBackwards(value) ==
  IF ~Position_checkValid(value) THEN Faulted(value)
  ELSE Position_fromNumber(BitAnd(value + 3, 3))

\* the sum handed to Direction's constructor without the & 3
Direction_plus_NoWrap(value, relative) ==
  IF ~Direction_checkValid(value) \/ Position_toNumber(relative).fault
  THEN Faulted(value)
  ELSE IF Direction_checkValid(value + Position_toNumber(relative).ret)
       THEN Ok(value + Position_toNumber(relative).ret)
       ELSE Faulted(value)

\* Direction::operator+ (Position const & relative)
Direction_plus(value, relative) ==
  IF ~Direction_checkValid(value) \/ Position_toNumber(relative).fault
  THEN Faulted(value)
  ELSE IF Direction_checkValid(BitAnd(value + Position_toNumber(relative).ret, 3))
       THEN Ok(BitAnd(value + Position_toNumber(relative).ret, 3))
       ELSE Faulted(value)

Position_ctor(v) ==
  LET res == Position_fromNumber(v)
  IN  /\ call' = [op |-> "PositionNumber", arg |-> v, before |-> obj.value,
                  ret |-> res.value, fault |-> res.fault]
      /\ hist' = [hist EXCEPT !.pos = [from |-> "number", value |-> res.value,
                                       leading |-> 0, relative |-> 0]]
      /\ UNCHANGED obj

Position_pairCtor(relative) ==
  LET res == Position_fromDirections(obj.value, relative)
  IN  /\ call' = [op |-> "Position", arg |-> relative, before |-> obj.value,
                  ret |-> res.value, fault |-> res.fault]
      /\ hist' = [hist EXCEPT !.pos = [from |-> "directions", value |-> res.value,
                                       leading |-> obj.value,
                                       relative |-> relative]]
      /\ UNCHANGED obj

\* p = p.oneBackwards()
Position_oneBackwardsCall ==
  LET res == Position_oneBackwards(hist.pos.value)
  IN  /\ hist.pos.from # "none"
      /\ call' = [op |-> "oneBackwards", arg |-> 0, before |-> obj.value,
                  ret |-> res.value, fault |-> res.fault]
      /\ hist' = [hist EXCEPT !.pos = [from |-> "oneBackwards", value |-> res.value,
                                       leading |-> 0, relative |-> 0]]
      /\ UNCHANGED obj

Position_toNumberCall ==
  LET res == Position_toNumber(hist.pos.value)
  IN  /\ hist.pos.from # "none"
      /\ call' = [op |-> "PositionToNumber", arg |-> 0, before |-> obj.value,
                  ret |-> res.ret, fault |-> res.fault]
      /\ UNCHANGED <<obj, hist>>

\* d = d + p, p the Position last constructed
Direction_plusCall ==
  LET res == Direction_plus(obj.value, hist.pos.value)
  IN  /\ hist.pos.from # "none"
      /\ obj' = [obj EXCEPT !.value = res.value]
      /\ call' = [op |-> "plus", arg |-> hist.pos.value, before |-> obj.value,
                  ret |-> res.value, fault |-> res.fault]
      /\ UNCHANGED hist

NextPosition ==
  \/ /\ obj = NoObject
     /\ \/ \E v \in UChar : Direction_ctor(v)
        \/ \E limit \in {0, Direction_maxValue} : Direction_limitCtor(limit)
  \/ /\ IsDirection /\ Running
     /\ \/ \E v \in UChar : Position_ctor(v)
        \/ \E relative \in Directions : Position_pairCtor(relative)
        \/ Position_oneBackwardsCall
        \/ Position_toNumberCall
        \/ Direction_plusCall

SpecPosition == InitDirection /\ [][NextPosition]_vars

(***************************************************************************)
(* C12: Position round-trips through addition: for all Directions L        *)
(* (leading) and D, L + Position(L, D) = D, and Position(L, L) is First    *)
(* (0) for every L.                                                        *)
(***************************************************************************)
C12_PositionRoundTrip ==
  IsDirection =>
    /\ (call.op = "Position" /\ call.arg = call.before) =>
         (~call.fault /\ hist.pos.value = 0)
    /\ (call.op = "plus" /\ hist.pos.from = "directions"
          /\ hist.pos.leading = call.before) =>
         (~call.fault /\ obj.value = hist.pos.relative)

(***************************************************************************)
(* C14: bit encoding: for every Rank r in 2..14, RankSet(r).toNumber() is  *)
(* 2^(r-2) (thirteen distinct single bits, the Ace being 0x1000 = 4096),   *)
(* and for every RankSet S, S.test(r) is true iff bit (r-2) of             *)
(* S.toNumber() is set.                                                    *)
(***************************************************************************)
C14_BitEncoding ==
  IsRankSet =>
    /\ call.op = "rankCtor" =>
         /\ ~call.fault
         /\ obj.value = 2^(call.arg - 2)
         /\ RankSet_toNumber(obj.value) = Returned(2^(call.arg - 2))
         /\ call.arg = 14 => obj.value = 4096
    /\ call.op = "toNumber" => (~call.fault /\ call.ret = call.before)
    /\ call.op = "test" =>
         /\ ~call.fault
         /\ call.ret <=> (call.before \div 2^(call.arg - 2)) % 2 = 1

C14_Witness ==
  /\ IsRankSet /\ call.op = "test" /\ ~call.fault
  /\ call.before = 4097 /\ call.arg = 14 /\ call.ret = TRUE

(***************************************************************************)
(* SpecTableInit: the lazily built lookup table of one query (count,       *)
(* highestRank, priorityIfInHand or winRanks) under NumThreads threads     *)
(* that each make one call of that query.  The four functions share one    *)
(* shape:                                                                  *)
(*     static T data[...]; static bool initialized = false;                *)
(*     if (!initialized) { for (rs ...) data[rs] = ...; initialized = true; } *)
(*     return data[value];                                                 *)
(* obj is the function's static storage (initialized, and per cell the     *)
(* number of times it was written); call is each thread's position in the  *)
(* function; hist records which threads entered the loop, which have read  *)
(* a result, and whether a cell was written after a result was read.  The  *)
(* table is cut down to the cells 0..MaxCell.                              *)
(***************************************************************************)
NumThreads == 2
MaxCell == 2

Threads == 1..NumThreads
Cells == 0..MaxCell
Tables == {"count", "highestRank", "priorityIfInHand", "winRanks"}

IsTable == obj.type \in Tables

\* the cell's contents after a single-threaded initialization: the column of
\* Rank 2 of the priority table, the column of leastWin 1 of winRanksData
Table_final(q, rs) ==
  CASE q = "count" -> count_data(rs)
    [] q = "highestRank" -> highestRank_data(rs)
    [] q = "priorityIfInHand" -> priority_data(rs, RankT_minValue("Rank"))
    [] q = "winRanks" -> winRanks_data(rs, 1)

\* a static array before its loop has run: zero-initialized integers, default
\* constructed (absent) optionals, default constructed (empty) RankSets
Table_static(q) == IF q = "highestRank" THEN RankT_optionalValue ELSE 0

\* the highestRank loop assigns nothing to the cell of the empty set
Table_assigns(q, rs) ==
  ~(q = "highestRank" /\ highestRank_data(rs) = RankT_optionalValue)

\* the loop body accumulating in the cell instead of in a local
Table_store_InPlace(q, rs, old) ==
  IF ~Table_assigns(q, rs) THEN old
  ELSE IF q = "highestRank" THEN Table_final(q, rs)
  ELSE old + Table_final(q, rs)

\* data[rs] = result: one assignment of a value computed in locals
Table_store(q, rs, old) ==
  IF Table_assigns(q, rs) THEN Table_final(q, rs) ELSE old

InitTableInit ==
  /\ \E q \in Tables :
       obj = [type |-> q, initialized |-> FALSE, data |-> [c \in Cells |-> 0],
              cell |-> [c \in Cells |-> Table_static(q)]]
  /\ \E value \in [Threads -> Cells] :
       call = [t \in Threads |->
                 [pc |-> "call", rs |-> 0, value |-> value[t], ret |-> 0]]
  /\ hist = [loopers |-> {}, readers |-> {}, writeAfterRead |-> FALSE]

\* if (!initialized): the flag is an ordinary bool, read without a lock
Table_testInitialized(t) ==
  /\ call[t].pc = "call"
  /\ IF ~obj.initialized
     THEN /\ call' = [call EXCEPT ![t].pc = "loop"]
          /\ hist' = [hist EXCEPT !.loopers = @ \cup {t}]
     ELSE /\ call' = [call EXCEPT ![t].pc = "return"]
          /\ UNCHANGED hist
  /\ UNCHANGED obj

\* one iteration of for (RankSet rs = min(); rs <= max(); rs++): data[rs] = ...
Table_loop(t) ==
  /\ call[t].pc = "loop"
  /\ obj' = [obj EXCEPT !.data[call[t].rs] =
                            IF Table_assigns(obj.type, call[t].rs) THEN @ + 1
                            ELSE @,
                         !.cell[call[t].rs] =
                            Table_store(obj.type, call[t].rs, @)]
  /\ call' = [call EXCEPT ![t].pc = IF call[t].rs = MaxCell THEN "set"
                                    ELSE "loop",
                          ![t].rs = IF call[t].rs = MaxCell THEN 0 ELSE @ + 1]
  /\ hist' = [hist EXCEPT !.writeAfterRead = @ \/ (hist.readers # {})]

\* initialized = true
Table_setInitialized(t) ==
  /\ call[t].pc = "set"
  /\ obj' = [obj EXCEPT !.initialized = TRUE]
  /\ call' = [call EXCEPT ![t].pc = "return"]
  /\ UNCHANGED hist

\* return data[value]
Table_return(t) ==
  /\ call[t].pc = "return"
  /\ call' = [call EXCEPT ![t].pc = "done",
                          ![t].ret = obj.cell[call[t].value]]
  /\ hist' = [hist EXCEPT !.readers = @ \cup {t}]
  /\ UNCHANGED obj

NextTableInit ==
  \/ \E t \in Threads : Table_testInitialized(t)
  \/ \E t \in Threads : Table_loop(t)
  \/ \E t \in Threads : Table_setInitialized(t)
  \/ \E t \in Threads : Table_return(t)

SpecTableInit == InitTableInit /\ [][NextTableInit]_vars

(***************************************************************************)
(* C15: each lookup table is built once, before first use: whatever the    *)
(* interleaving of the threads' first calls, at most one thread executes   *)
(* the initialization loop and no cell is written after a thread has read  *)
(* a result from the table.                                                *)
(***************************************************************************)
C15_TableBuiltOnce ==
  IsTable =>
    /\ Cardinality(hist.loopers) <= 1
    /\ ~hist.writeAfterRead
    /\ \A c \in Cells : obj.data[c] <= 1

(***************************************************************************)
(* C21: taking each table-cell write and each access to the initialized    *)
(* flag as one atomic step, every interleaving of concurrent first calls   *)
(* gives each caller the value a single-threaded call returns: a call that *)
(* has returned has read its cell's final contents.                        *)
(***************************************************************************)
C21_ConcurrentCallsReturnFinal ==
  IsTable =>
    \A t \in Threads :
      call[t].pc = "done" =>
        call[t].ret = Table_final(obj.type, call[t].value)

\* every thread has returned, all of them ran the loop, one of them wrote
\* after another had read, and a caller read a cell the loop had to fill
C21_Witness ==
  /\ IsTable
  /\ hist.loopers = Threads
  /\ hist.writeAfterRead
  /\ \A t \in Threads : call[t].pc = "done"
  /\ \E t \in Threads : call[t].ret # Table_static(obj.type)

(***************************************************************************)
(* C16: the enumeration sequences cover their domain exactly once and are  *)
(* mutual reverses: Strain::lowToHigh() holds each of the five strains     *)
(* exactly once and is the reverse of Strain::highToLow(); Suit::          *)
(* lowToHigh() holds each of the four suits exactly once and is the        *)
(* reverse of Suit::highToLow().                                           *)
(***************************************************************************)
Reverse(s) == [i \in 1..Len(s) |-> s[Len(s) + 1 - i]]

C16_EnumerationsCoverAndReverse ==
  (IsStrain /\ call.op \in Orders) =>
    /\ Len(call.ret) = Cardinality(StrainDomain(obj.type))
    /\ {call.ret[i] : i \in 1..Len(call.ret)} = StrainDomain(obj.type)
    /\ call.op = "lowToHigh" => call.ret = Reverse(highToLow(obj.type))
    /\ call.op = "highToLow" => call.ret = Reverse(lowToHigh(obj.type))

MaxRequests == 3
MaxWorkers == 2
MaxBoard == 1

Malformed == MaxBoard + 1
Requests == 0..Malformed
Pending == [done |-> FALSE, error |-> FALSE, tricks |-> 0]

\* the outcome of one request: an error for a malformed deal, else the
\* trick count (0..13) the search finds for the board
SolveRequest(request) ==
  IF request = Malformed THEN [done |-> TRUE, error |-> TRUE, tricks |-> 0]
  ELSE [done |-> TRUE, error |-> FALSE, tricks |-> (5 * request + 8) % 14]

\* the same requests solved one after the other on one thread
RECURSIVE SequentialResults(_)
SequentialResults(requests) ==
  IF requests = <<>> THEN <<>>
  ELSE <<SolveRequest(Head(requests))>> \o SequentialResults(Tail(requests))

\* a scheduler that stores outcomes in the order they complete
ResultIndex_CompletionOrder(request, completed) == completed + 1

\* the entry of the result vector a request's outcome is stored in
ResultIndex(request, completed) == request

IsBatch == obj.type = "batch"
BatchSize == Len(obj.requests)
Workers == DOMAIN call
Idle == [busy |-> FALSE, request |-> 0]

InitScheduler ==
  /\ \E n \in 1..MaxRequests : \E requests \in [1..n -> Requests] :
       obj = [type |-> "batch", requests |-> requests,
              results |-> [i \in 1..n |-> Pending]]
  /\ \E w \in 1..MaxWorkers : call = [k \in 1..w |-> Idle]
  /\ hist = [taken |-> {}, order |-> <<>>]

\* a free worker takes any request that no worker has taken
Scheduler_take(w, i) ==
  /\ ~call[w].busy
  /\ i \notin hist.taken
  /\ call' = [call EXCEPT ![w] = [busy |-> TRUE, request |-> i]]
  /\ hist' = [hist EXCEPT !.taken = @ \cup {i}]
  /\ UNCHANGED obj

\* the worker finishes its request and stores the outcome
Scheduler_complete(w) ==
  /\ call[w].busy
  /\ obj' = [obj EXCEPT
               !.results[ResultIndex(call[w].request, Len(hist.order))] =
                 SolveRequest(obj.requests[call[w].request])]
  /\ call' = [call EXCEPT ![w] = Idle]
  /\ hist' = [hist EXCEPT !.order = Append(@, call[w].request)]

NextScheduler ==
  \/ \E w \in Workers : \E i \in 1..BatchSize : Scheduler_take(w, i)
  \/ \E w \in Workers : Scheduler_complete(w)

SpecScheduler == InitScheduler /\ [][NextScheduler]_vars

BatchDone == Len(hist.order) = BatchSize

\* the results as a bag: how many entries hold each outcome
ResultBag(results) ==
  [x \in {results[i] : i \in DOMAIN results} |->
     Cardinality({i \in DOMAIN results : results[i] = x})]

C19_NotEqualNegatesEqual ==
  (IsStrain /\ call.op = "ne" /\ obj.value \in StrainDomain(obj.type)) =>
    /\ call.ret <=> ~StrainT_eq(obj.value, call.arg)
    /\ call.ret <=> obj.value # call.arg

(***************************************************************************)
(* C20: comparing two sentinel-encoded optionals with operator!= always    *)
(* terminates and returns the negation of operator==: two absent optionals *)
(* are equal, an absent and a present one are unequal, and two present     *)
(* optionals are unequal iff their contained values differ.                *)
(***************************************************************************)
C20_OptionalNotEqual ==
  (obj # NoObject /\ call.op = "ne") =>
    LET absentL == T_testOptional(obj.type, obj.value)
        absentR == T_testOptional(obj.type, call.arg)
    IN  /\ ~call.diverges
        /\ ~call.fault
        /\ (absentL /\ absentR) => call.ret = 0
        /\ (absentL # absentR) => call.ret = 1
        /\ (~absentL /\ ~absentR) => (call.ret = 1 <=> obj.value # call.arg)
        /\ (absentL \/ absentR) =>
             call.ret = 1 - Optional_eq(obj.type, obj.value, call.arg).ret


(***************************************************************************)
(* C22: restricted to the four suits, comparison is a strict total order   *)
(* in which the stronger suit is the higher one (Spades > Hearts >         *)
(* Diamonds > Clubs): exactly one of a < b, a == b, a > b holds, a < b iff *)
(* b > a, a <= b iff b >= a, and a > b iff the legacy integer of a is      *)
(* smaller than that of b.                                                 *)
(***************************************************************************)
OrderOps == {"gt", "ge", "lt", "le", "eq"}

C22_SuitOrder ==
  (obj.type = "Suit" /\ obj.value \in SuitStrains /\ call.op \in OrderOps) =>
    LET a == obj.value
        b == call.arg
        less == StrainT_lt(a, b)
        same == StrainT_eq(a, b)
        more == StrainT_gt(a, b)
    IN  /\ call.op = "gt" => (call.ret <=> a < b)
        /\ call.op = "lt" => (call.ret <=> b < a)
        /\ call.op = "ge" => (call.ret <=> (more \/ same))
        /\ call.op = "le" => (call.ret <=> (less \/ same))
        /\ call.op = "eq" => (call.ret <=> a = b)
        /\ Cardinality({k \in 1..3 : <<less, same, more>>[k]}) = 1
        /\ less <=> StrainT_gt(b, a)
        /\ StrainT_le(a, b) <=> StrainT_ge(b, a)
        /\ more <=> a < b

\* Hearts < Spades has been evaluated and is true
C22_Witness ==
  /\ obj.type = "Suit" /\ obj.value = 1
  /\ call.op = "lt" /\ call.arg = 0 /\ call.ret


(***************************************************************************)
(* C23: Direction + Position wraps cyclically and always yields a valid    *)
(* Direction: for every Direction d and Position p in 0..3, d + p is       *)
(* lho() applied p times to d, numerically (d + p) mod 4; in particular    *)
(* South + Position(2) is North.                                           *)
(***************************************************************************)
RECURSIVE LhoTimes(_, _)
LhoTimes(d, p) == IF p = 0 THEN d ELSE LhoTimes(Direction_lho(d).value, p - 1)

C23_PlusWrapsCyclically ==
  (IsDirection /\ call.op = "plus"
     /\ call.before \in Directions /\ call.arg \in 0..3) =>
    /\ ~call.fault
    /\ call.ret \in Directions
    /\ call.ret = (call.before + call.arg) % 4
    /\ call.ret = LhoTimes(call.before, call.arg)
    /\ obj.value = call.ret
    /\ (call.before = 2 /\ call.arg = 2) => call.ret = 0

\* South + Position(2) has been evaluated, past the wrap
C23_Witness ==
  /\ IsDirection /\ call.op = "plus" /\ ~call.fault
  /\ call.before = 2 /\ call.arg = 2 /\ call.ret = 0


(***************************************************************************)
(* C24: for every RankSet S, toSingleRank() is present iff count() is 1,   *)
(* and then it is the sole member of S, which is also highestRank(); for   *)
(* the empty set and for every set of two or more ranks it is absent.      *)
(***************************************************************************)
C24_SingleRankIffCountOne ==
  (IsRankSet /\ call.op = "toSingleRank" /\ RankSet_checkValid(call.before)) =>
    LET held == Present(call.before)
        present == call.ret # RankT_optionalValue
    IN  /\ ~call.fault
        /\ present <=> Cardinality(held) = 1
        /\ present <=> RankSet_count(call.before).ret = 1
        /\ present => /\ held = {call.ret}
                      /\ call.ret = RankSet_highestRank(call.before).ret
        /\ Cardinality(held) # 1 => call.ret = RankT_optionalValue

\* toSingleRank() has answered 7 for the set holding the 7 alone
C24_Witness ==
  /\ IsRankSet /\ call.op = "toSingleRank" /\ ~call.fault
  /\ call.before = 32 /\ call.ret = 7


(***************************************************************************)
(* C25: for every RankSet S, toLowest() and cloneOnlyLSB() return the same *)
(* value: the empty set when S is empty, otherwise the set whose single    *)
(* member is the lowest Rank of S; both leave S unchanged and the result   *)
(* is a valid RankSet (at most 8191).                                      *)
(***************************************************************************)
LowestOps == {"toLowest", "cloneOnlyLSB"}

C25_LowestBitClones ==
  (IsRankSet /\ call.op \in LowestOps /\ RankSet_checkValid(call.before)) =>
    LET held == Present(call.before)
    IN  /\ ~call.fault
        /\ call.ret = RankSet_toLowest(call.before).value
        /\ call.ret = RankSet_cloneOnlyLSB(call.before).value
        /\ held = {} => call.ret = 0
        /\ held # {} =>
             Present(call.ret) = {CHOOSE r \in held : \A q \in held : r <= q}
        /\ call.ret <= 8191
        /\ obj.value = call.before

\* cloneOnlyLSB() of {3, 5, Ace} has returned the set holding the 3 alone
C25_Witness ==
  /\ IsRankSet /\ call.op = "cloneOnlyLSB" /\ ~call.fault
  /\ call.before = 4096 + 8 + 2 /\ call.ret = 2 /\ obj.value = call.before


(***************************************************************************)
(* SpecRankSetFrame: a RankSet is constructed and one single-rank mutator  *)
(* or one query is applied to it.                                          *)
(***************************************************************************)
FrameQueries == {"count", "highestRank", "toSingleRank"}
FrameRankQueries == {"test", "priorityIfInHand"}

NextRankSetFrame ==
  \/ Construct
  \/ /\ Fresh
     /\ \/ \E op \in RankOps, r \in Ranks : RankSet_rankOp(op, r)
        \/ \E op \in FrameQueries : RankSet_query(op)
        \/ \E op \in FrameRankQueries, r \in Ranks : RankSet_rankQuery(op, r)
        \/ \E leastWin \in LeastWinArgs : RankSet_winRanksCall(leastWin)
        \/ RankSet_deriveOp("toLowest")

SpecRankSetFrame == InitRankSet /\ [][NextRankSetFrame]_vars

(***************************************************************************)
(* C26: frame.  The single-rank mutators set(r), reset(r), flip(r), += r   *)
(* and -= r change the membership of r only: every other Rank q is a       *)
(* member after the call iff it was one before.  The queries test, count,  *)
(* highestRank, priorityIfInHand, winRanks, toSingleRank and toLowest      *)
(* leave the RankSet as it was.                                            *)
(***************************************************************************)
C26_Frame ==
  IsRankSet =>
    /\ call.op \in RankOps =>
         /\ \A q \in Ranks \ {call.arg} :
              Member(obj.value, q) <=> Member(call.before, q)
         /\ obj.value \div 8192 = call.before \div 8192
    /\ call.op \in FrameQueries \cup FrameRankQueries \cup {"winRanks", "toLowest"} =>
         obj.value = call.before

\* flip(5) has taken the 5 out of {3, 5, Ace} and left the 3 and the Ace
C26_Witness ==
  /\ IsRankSet /\ call.op = "flip" /\ ~call.fault
  /\ call.before = 4096 + 8 + 2 /\ call.arg = 5 /\ obj.value = 4096 + 2

=============================================================================
